---- MODULE Spec2Model ----
(***************************************************************************)
(* A model of the newsletter CLI: the product cache reconciler             *)
(* (cache.py), the feed client (mtp_api.py), the newsletter generator      *)
(* (generator.py) and the two tables of models.py.                         *)
(*                                                                         *)
(* Text is a sequence of one-character strings, so that strip, split,      *)
(* prefix tests and number parsing are computed as the code computes them. *)
(* An optional value is None or Some(v).                                   *)
(* A price is an exact number of 1/10000 units; the property keys          *)
(* d:Künstler and d:Veröffentlichungsdatum are written Kuenstler and       *)
(* Veroeffentlichungsdatum.                                                *)
(***************************************************************************)
EXTENDS Integers, Sequences, FiniteSets, TLC

\* Python's None, and a present value of an optional number or text.
None == <<>>
Some(v) == <<v>>

\* ------------------------------------------------------------------ bounds

\* The model's clock (seconds) runs from 0 to MaxClock.
MaxClock == 1
\* At most MaxRuns generate_newsletter calls.
MaxRuns == 1
\* A feed's entry list has at most MaxFeedLen entries written out one by one.
MaxFeedLen == 2

\* cache.py:103, `processed % 200 == 0`.
BatchSize == 200

\* ------------------------------------------------------------- text helpers

Digit == {"0", "1", "2", "3", "4", "5", "6", "7", "8", "9"}

DigitVal(c) ==
    CASE c = "0" -> 0 [] c = "1" -> 1 [] c = "2" -> 2 [] c = "3" -> 3
      [] c = "4" -> 4 [] c = "5" -> 5 [] c = "6" -> 6 [] c = "7" -> 7
      [] c = "8" -> 8 [] c = "9" -> 9

\* The characters str.strip() and str.split() treat as whitespace.
WhiteSpace == {" ", "\t", "\n"}

RECURSIVE LStrip(_, _)
LStrip(t, chars) ==
    IF t # <<>> /\ Head(t) \in chars THEN LStrip(Tail(t), chars) ELSE t

RECURSIVE RStrip(_, _)
RStrip(t, chars) ==
    IF t # <<>> /\ t[Len(t)] \in chars
    THEN RStrip(SubSeq(t, 1, Len(t) - 1), chars)
    ELSE t

\* str.strip(chars): every leading and trailing character of `chars` goes.
Strip(t, chars) == RStrip(LStrip(t, chars), chars)

StartsWith(t, p) == Len(t) >= Len(p) /\ SubSeq(t, 1, Len(p)) = p

\* `needle in text` for strings.
Contains(t, needle) ==
    \E i \in 1..(Len(t) - Len(needle) + 1) :
        SubSeq(t, i, i + Len(needle) - 1) = needle

\* str.replace(old, new) for a one-character `old`; `new` is a text.
RECURSIVE Replace(_, _, _)
Replace(t, old, new) ==
    IF t = <<>> THEN <<>>
    ELSE (IF Head(t) = old THEN new ELSE <<Head(t)>>) \o Replace(Tail(t), old, new)

\* str.split(): the maximal runs of non-whitespace characters, in order.
RECURSIVE SplitFrom(_, _)
SplitFrom(t, cur) ==
    IF t = <<>> THEN (IF cur = <<>> THEN <<>> ELSE <<cur>>)
    ELSE IF Head(t) \in WhiteSpace
         THEN (IF cur = <<>> THEN <<>> ELSE <<cur>>) \o SplitFrom(Tail(t), <<>>)
         ELSE SplitFrom(Tail(t), Append(cur, Head(t)))

Split(t) == SplitFrom(t, <<>>)

AllDigits(t) == \A i \in 1..Len(t) : t[i] \in Digit

RECURSIVE DigitsVal(_)
DigitsVal(t) ==
    IF t = <<>> THEN 0 ELSE DigitsVal(SubSeq(t, 1, Len(t) - 1)) * 10 + DigitVal(t[Len(t)])

\* ------------------------------------------------------------------ numbers

\* A float is modelled exactly, as an integer count of 1/Unit: four decimal
\* places, enough for a two-decimal price times a whole percentage.
FracDigits == 2 + 2
Unit == 100 * 100

RECURSIVE PadRight(_, _)
PadRight(t, n) == IF Len(t) >= n THEN SubSeq(t, 1, n) ELSE PadRight(Append(t, "0"), n)

\* float(text) on texts over digits, '.', '-', '+' and whitespace:
\* [sign] digits [ '.' digits ] with a digit on at least one side of the
\* point; anything else is a ValueError, modelled as None.
Unsigned(t) == IF t # <<>> /\ Head(t) \in {"-", "+"} THEN Tail(t) ELSE t
SignOf(t) == IF t # <<>> /\ Head(t) = "-" THEN -1 ELSE 1
PointAt(t) == IF \E i \in 1..Len(t) : t[i] = "."
              THEN CHOOSE i \in 1..Len(t) : t[i] = "." /\ \A j \in 1..(i - 1) : t[j] # "."
              ELSE 0
ParseFloat(text) ==
    LET s == Strip(text, WhiteSpace)
        u == Unsigned(s)
        p == PointAt(u)
        ip == IF p = 0 THEN u ELSE SubSeq(u, 1, p - 1)
        fp == IF p = 0 THEN <<>> ELSE SubSeq(u, p + 1, Len(u))
    IN  IF AllDigits(ip) /\ AllDigits(fp) /\ Len(ip) + Len(fp) > 0
        THEN Some(SignOf(s) * (DigitsVal(ip) * Unit + DigitsVal(PadRight(fp, FracDigits))))
        ELSE None

\* int(text): [sign] digits, surrounding whitespace allowed; else ValueError (None).
ParseInt(text) ==
    LET s == Strip(text, WhiteSpace)
        u == Unsigned(s)
    IN  IF u # <<>> /\ AllDigits(u) THEN Some(SignOf(s) * DigitsVal(u)) ELSE None

\* --------------------------------------------------------------- feed values

\* A value of the parsed XML tree (xmltodict): a string, None (an empty
\* element), a mapping with a "#text" member (an element with attributes and
\* text) or a mapping without one (an element with attributes only).
StrVal(t) == [kind |-> "str", text |-> t]
NoneVal == [kind |-> "none", text |-> <<>>]
TextDict(t) == [kind |-> "textdict", text |-> t]
AttrDict == [kind |-> "attrdict", text |-> <<>>]

\* str() of the attributes-only mapping {'@m:null': 'true'}.
AttrDictRepr ==
    <<"{", "'", "@", "m", ":", "n", "u", "l", "l", "'", ":", " ",
      "'", "t", "r", "u", "e", "'", "}">>

\* A property key "prefix:local" is the pair <<prefix, local>>.
D(local) == <<"d", local>>

\* properties: a sequence of <<key, value>> pairs with distinct keys, in
\* document order.
HasKey(props, key) == \E i \in 1..Len(props) : props[i][1] = key
PropsGet(props, key, default) ==
    IF HasKey(props, key)
    THEN props[CHOOSE i \in 1..Len(props) : props[i][1] = key][2]
    ELSE default

\* cache.py _extract_text
ExtractText(value) ==
    CASE value.kind = "textdict" -> value.text
      [] value.kind = "none" -> <<>>
      [] value.kind = "attrdict" -> AttrDictRepr
      [] OTHER -> value.text

\* cache.py _extract_price
ExtractPrice(value) ==
    LET text == ExtractText(value)
    IN  IF text = <<>> \/ text \in {<<"0">>, <<"0", ",", "0", "0">>}
        THEN None
        ELSE ParseFloat(Replace(Replace(text, ".", <<>>), ",", <<".">>))

\* cache.py _extract_detail_images
RECURSIVE KeepHttp(_)
KeepHttp(parts) ==
    IF parts = <<>> THEN <<>>
    ELSE LET url == Strip(Head(parts), {"\""})
         IN  (IF StartsWith(url, <<"h", "t", "t", "p">>) THEN <<url>> ELSE <<>>)
             \o KeepHttp(Tail(parts))

ExtractDetailImages(detail_images) == KeepHttp(Split(detail_images))

\* json.dumps / json.loads: a serialized document is the pair <<"json", value>>;
\* any other text does not decode (JSONDecodeError, modelled as None).
JsonDumps(value) == <<"json", value>>
JsonLoads(text) ==
    IF Len(text) = 2 /\ text[1] = "json" THEN Some(text[2]) ELSE None

\* cache.py:66-70, the map of all "d:"-prefixed properties, in document order.
RECURSIVE AllFields(_)
AllFields(props) ==
    IF props = <<>> THEN <<>>
    ELSE (IF Head(props)[1][1] = "d"
          THEN << <<Head(props)[1], ExtractText(Head(props)[2])>> >>
          ELSE <<>>) \o AllFields(Tail(props))

\* cache.py:96-100
InventoryTotal(props) ==
    LET inventory_raw == ExtractText(PropsGet(props, D("Gesamtlagerbestand"), StrVal(<<"0">>)))
        n == ParseInt(inventory_raw)
    IN  IF inventory_raw = <<>> THEN 0 ELSE IF n = None THEN 0 ELSE n[1]

\* The article number taken without trimming.
ArticleNumberUntrimmed(props) ==
    ExtractText(PropsGet(props, <<"d", "Artikelnummer">>, [kind |-> "str", text |-> <<>>]))

\* cache.py:61
ArticleNumberOf(props) ==
    Strip(ExtractText(PropsGet(props, D("Artikelnummer"), StrVal(<<>>))), WhiteSpace)

GetText(props, local) == ExtractText(PropsGet(props, D(local), StrVal(<<>>)))
GetPrice(props, local) == ExtractPrice(PropsGet(props, D(local), NoneVal))

\* cache.py:77-100: the fields refresh_cache assigns to `existing`, as a
\* function of the entry's properties and the clock reading.
DerivedFields(props, now) ==
    [ name_de            |-> GetText(props, "Bezeichnung-Deutsch"),
      name_en            |-> GetText(props, "Bezeichnung-Englisch"),
      category           |-> GetText(props, "Artikelgruppe"),
      price_dealer       |-> GetPrice(props, "dealer_price"),
      price_retail_net   |-> GetPrice(props, "retail_price_net"),
      price_retail_vat   |-> GetPrice(props, "retail_price_vat"),
      price_retail_gross |-> GetPrice(props, "retail_price_gross"),
      description_de     |-> GetText(props, "Langtext-Deutsch"),
      description_en     |-> GetText(props, "Langtext-Englisch"),
      artist             |-> GetText(props, "Kuenstler"),
      label              |-> GetText(props, "Label"),
      genre              |-> GetText(props, "Genre"),
      release_date       |-> GetText(props, "Veroeffentlichungsdatum"),
      main_image_url     |-> GetText(props, "Produktbild"),
      detail_images_urls |-> JsonDumps(ExtractDetailImages(GetText(props, "Detailbilder"))),
      all_fields_json    |-> JsonDumps(AllFields(props)),
      is_active          |-> TRUE,
      last_updated       |-> now,
      inventory_total    |-> InventoryTotal(props) ]

DerivedNames == DOMAIN DerivedFields(<<>>, 0)

\* A pending object (session.new): the article number and the assigned
\* fields; the database gives it id and created_at when it is inserted.
NewObject(article_number, fields) == [article_number |-> article_number] @@ fields

\* models.py MTPProductCache: a stored row.
Row(id, created_at, object) == [id |-> id, created_at |-> created_at] @@ object

\* An update that adds the feed's inventory to the stored one.
AssignAccumulate(row, fields) ==
    [fields EXCEPT !.inventory_total = @ + row.inventory_total] @@ row

\* An update that keeps the stored value of a field the entry leaves empty.
AssignMerge(row, fields) ==
    [f \in DOMAIN fields |->
        IF f \notin {"is_active", "last_updated", "inventory_total"} /\ fields[f] = <<>>
        THEN row[f] ELSE fields[f]] @@ row

\* Assigning the derived fields to an object that keeps its identity.
Assign(row, fields) == fields @@ row

\* ------------------------------------------------------------ feed documents

\* A feed entry: its content.m:properties is a mapping (with defaults {} when
\* content or m:properties is missing), or content / m:properties is not a
\* mapping (an empty element parses to None, a text-only element to a string).
PropsEntry(props) == [shape |-> "props", props |-> props]
NotMappingEntry == [shape |-> "notmapping", props |-> <<>>]

\* An entry list is written as blocks <<entry, count>>: `count` consecutive
\* copies of `entry`.  Lists longer than a commit batch are written this way.
RECURSIVE ListLen(_)
ListLen(blocks) == IF blocks = <<>> THEN 0 ELSE Head(blocks)[2] + ListLen(Tail(blocks))

RECURSIVE ListAt(_, _)
ListAt(blocks, i) ==
    IF i <= Head(blocks)[2] THEN Head(blocks)[1] ELSE ListAt(Tail(blocks), i - Head(blocks)[2])

\* The parsed document: its "feed" member is a mapping whose "entry" member is
\* absent, one mapping or a list; or "feed" is not a mapping.
ListDoc(blocks) == [feed |-> "mapping", entry |-> "list", list |-> blocks]
SingleDoc(e) == [feed |-> "mapping", entry |-> "single", list |-> << <<e, 1>> >>]
NoEntryDoc == [feed |-> "mapping", entry |-> "absent", list |-> <<>>]
BadRootDoc == [feed |-> "notmapping", entry |-> "absent", list |-> <<>>]

\* A client that answers a failed request with an empty feed.
FetchEmptyOnFailure(response) ==
    IF response.outcome = "ok" THEN Some(response.doc)
    ELSE Some([feed |-> "mapping", entry |-> "absent", list |-> <<>>])

\* mtp_api.py fetch_product_feed: the parsed document, or None on a timeout,
\* a transport or HTTP error, a parse failure or a document without "feed".
FetchProductFeed(response) ==
    IF response.outcome = "ok" THEN Some(response.doc) ELSE None

Response(outcome, doc) == [outcome |-> outcome, doc |-> doc]
FailedResponses ==
    {Response(o, NoEntryDoc) : o \in {"timeout", "http_error", "parse_error", "no_feed_root"}}

\* cache.py _iter_entries: the entries as a list; AttributeError when "feed"
\* is not a mapping.
IterEntries(feed_payload) ==
    IF feed_payload.feed # "mapping"
    THEN [ok |-> FALSE, list |-> <<>>]
    ELSE [ok |-> TRUE, list |-> feed_payload.list]

\* ------------------------------------------------------- database and session

\* A table without the unique constraint.
UniqueViolationOff(table, article_number) == FALSE

\* models.py:16, unique=True on article_number: an INSERT of a second row
\* with a stored article number fails (IntegrityError).
UniqueViolation(table, article_number) ==
    \E r \in table : r.article_number = article_number

MaxId(table) == IF table = {} THEN 0 ELSE CHOOSE n \in {r.id : r \in table} : \A r \in table : r.id <= n

\* db.py:20, a session with autoflush off: `new` are the objects added and
\* not yet inserted, `dirty` the loaded rows with assignments not yet written,
\* `n` the number of upserts since the last commit.
EmptySession == [new |-> <<>>, dirty |-> {}, n |-> 0]

\* db.query(MTPProductCache).filter(article_number == a).first(): the query
\* reads the stored rows (pending objects are not flushed, so not seen) and
\* returns the session's object for the row it finds.
QueryFirst(table, session, article_number) ==
    LET hits == {r \in table : r.article_number = article_number}
    IN  IF hits = {} THEN None
        ELSE LET r == CHOOSE h \in hits : \A o \in hits : h.id <= o.id
             IN  IF \E d \in session.dirty : d.id = r.id
                 THEN Some(CHOOSE d \in session.dirty : d.id = r.id)
                 ELSE Some(r)

\* cache.py:72-100: look the article up, add a new object when there is none,
\* assign every derived field.
Upsert(table, session, article_number, fields) ==
    LET existing == QueryFirst(table, session, article_number)
    IN  IF existing = None
        THEN [session EXCEPT !.new = Append(@, NewObject(article_number, fields)),
                             !.n = @ + 1]
        ELSE [session EXCEPT
                !.dirty = {d \in @ : d.id # existing[1].id} \cup {Assign(existing[1], fields)},
                !.n = @ + 1]

RECURSIVE InsertAll(_, _, _)
InsertAll(table, objects, now) ==
    IF objects = <<>> THEN [ok |-> TRUE, table |-> table]
    ELSE IF UniqueViolation(table, Head(objects).article_number)
         THEN [ok |-> FALSE, table |-> table]
         ELSE InsertAll(table \cup {Row(MaxId(table) + 1, now, Head(objects))},
                        Tail(objects), now)

\* A commit that keeps only the rows the session touched.
CommitReplacing(table, session, now) ==
    LET done == InsertAll(session.dirty, session.new, now)
    IN  IF done.ok THEN done ELSE [ok |-> FALSE, table |-> table]

\* db.commit(): write the assignments, insert the new objects in order; an
\* IntegrityError rolls the whole transaction back.
Commit(table, session, now) ==
    LET updated == {IF \E d \in session.dirty : d.id = r.id
                    THEN CHOOSE d \in session.dirty : d.id = r.id
                    ELSE r : r \in table}
        done == InsertAll(updated, session.new, now)
    IN  IF done.ok THEN done ELSE [ok |-> FALSE, table |-> table]

\* ------------------------------------------------------------ sample inputs

M1 == <<"M", "1">>
M2 == <<"M", "2">>

\* An entry with every property the reconciler reads, for article M1.
FullProps ==
    << <<D("Artikelnummer"), StrVal(M1)>>,
       <<D("Bezeichnung-Deutsch"), StrVal(<<"D", "e">>)>>,
       <<D("Bezeichnung-Englisch"), StrVal(<<"E", "n">>)>>,
       <<D("Artikelgruppe"), StrVal(<<"C", "D">>)>>,
       <<D("dealer_price"), TextDict(<<"1", ".", "2", "3", "4", ",", "5", "0">>)>>,
       <<D("retail_price_net"), TextDict(<<"0">>)>>,
       <<D("retail_price_vat"), TextDict(<<"0", ",", "0", "0">>)>>,
       <<D("retail_price_gross"), TextDict(<<"x">>)>>,
       <<D("Langtext-Deutsch"), StrVal(<<"L", "d">>)>>,
       <<D("Langtext-Englisch"), AttrDict>>,
       <<D("Kuenstler"), StrVal(<<"A">>)>>,
       <<D("Label"), StrVal(<<"L">>)>>,
       <<D("Genre"), StrVal(<<"G">>)>>,
       <<D("Veroeffentlichungsdatum"), StrVal(<<"2", "0", "2", "6">>)>>,
       <<D("Produktbild"), StrVal(<<"h", "t", "t", "p", "/", "p">>)>>,
       <<D("Detailbilder"),
         StrVal(<<"\"", "h", "t", "t", "p", "/", "x", "\"", " ", "f", "t", "p", " ",
                  "h", "t", "t", "p", "/", "M", "1">>)>>,
       <<D("Gesamtlagerbestand"), StrVal(<<"5">>)>>,
       << <<"m", "etag">>, StrVal(<<"e">>)>> >>

\* An entry for M1 that carries the article number alone, with padding.
SparseProps == << <<D("Artikelnummer"), StrVal(<<" ", "M", "1", " ">>)>> >>

\* An entry for M2: a price of 100,00 in the retail-vat tier only.
OtherProps ==
    << <<D("Artikelnummer"), TextDict(M2)>>,
       <<D("Bezeichnung-Englisch"), StrVal(<<"E", "2">>)>>,
       <<D("retail_price_vat"), StrVal(<<"1", "0", "0", ",", "0", "0">>)>>,
       <<D("Gesamtlagerbestand"), StrVal(<<"n">>)>> >>

\* An article number of whitespace only, and no article number at all.
BlankProps == << <<D("Artikelnummer"), StrVal(<<" ", "\t">>)>>,
                 <<D("Label"), StrVal(<<"L">>)>> >>

EFull == PropsEntry(FullProps)
ESparse == PropsEntry(SparseProps)
EOther == PropsEntry(OtherProps)
EBlank == PropsEntry(BlankProps)
ENoContent == PropsEntry(<<>>)

Entries == {EFull, ESparse, EOther, EBlank, ENoContent, NotMappingEntry}

\* Every list of at most n entries written out one by one.
RECURSIVE ListsUpTo(_)
ListsUpTo(n) ==
    IF n = 0 THEN {<<>>}
    ELSE LET shorter == ListsUpTo(n - 1)
         IN  shorter \cup {Append(l, <<e, 1>>) : l \in shorter, e \in Entries}

ShortDocs ==
    {ListDoc(l) : l \in ListsUpTo(MaxFeedLen)}
        \cup {SingleDoc(EFull), NoEntryDoc, BadRootDoc}

ShortResponses == {Response("ok", d) : d \in ShortDocs} \cup FailedResponses

\* ---------------------------------------------------------------------- state

VARIABLES
    cache,        \* table mtp_products_cache: the set of committed rows
    runs,         \* table newsletter_runs: the committed rows, in insertion order
    files,        \* the output directory: path -> content
    calls,        \* the number of generate_newsletter calls so far
    wizard,       \* the configuration of a wizard that still has to generate "en"
    clock,        \* the wall clock, in seconds
    pc,           \* "idle"; "loop" inside refresh_cache's for loop; "done"
                  \* when a call has ended and its result is at hand
    payload,      \* the document the running (or last) refresh fetched
    idx,          \* the position of the next entry of the loop
    processed,    \* refresh_cache's local `processed`
    session,      \* the session of the running refresh
    commits,      \* the commits the running (or last) refresh has issued
    result,       \* how the last call ended
    cacheBefore,  \* `cache` when the last refresh_cache call began
    sameAsPrev,   \* the running (or last) refresh came right after a refresh
                  \* of the same document
    peer          \* a second refresh_cache invocation, of another process on
                  \* the same store: its pc, payload, idx, processed, session,
                  \* commits and result

vars == <<cache, runs, files, calls, wizard, peer, clock, pc, payload, idx, processed,
          session, commits, result, cacheBefore, sameAsPrev>>

Returned(op, count) == [op |-> op, status |-> "ok", error |-> "", count |-> count]
Raised(op, error) == [op |-> op, status |-> "error", error |-> error, count |-> 0]
NoResult == [op |-> "", status |-> "", error |-> "", count |-> 0]

EntryList == IterEntries(payload[1]).list

\* A second invocation that has not begun.
PeerIdle ==
    [ pc |-> "idle", payload |-> None, idx |-> 0, processed |-> 0,
      session |-> EmptySession, commits |-> 0, result |-> NoResult ]

\* The state of a store that holds the products `table` and the run
\* records `runlist`, with the files `written` on disk.
InitStore(table, runlist, written) ==
    /\ cache = table
    /\ runs = runlist
    /\ files = written
    /\ calls = 0
    /\ wizard = None
    /\ peer = PeerIdle
    /\ clock = 0
    /\ pc = "idle"
    /\ payload = None
    /\ idx = 0
    /\ processed = 0
    /\ session = EmptySession
    /\ commits = 0
    /\ result = NoResult
    /\ cacheBefore = table
    /\ sameAsPrev = FALSE

InitWith(table) == InitStore(table, <<>>, <<>>)

\* init_db on a new database: both tables are empty.
Init == InitWith({})

\* Time passes.
Tick ==
    /\ clock < MaxClock
    /\ clock' = clock + 1
    /\ UNCHANGED <<cache, runs, files, calls, wizard, peer, pc, payload, idx, processed,
                   session, commits, result, cacheBefore, sameAsPrev>>

\* The caller has used the result of the call that ended.
Return ==
    /\ pc = "done"
    /\ wizard = None
    /\ pc' = "idle"
    /\ payload' = None
    /\ idx' = 0
    /\ processed' = 0
    /\ commits' = 0
    /\ result' = NoResult
    /\ cacheBefore' = cache
    /\ sameAsPrev' = FALSE
    /\ UNCHANGED <<cache, runs, files, calls, wizard, peer, clock, session>>

\* A batch test that fires one entry late.
BatchFullLate(n) == n % BatchSize = 1

\* cache.py:103
BatchFull(n) == n % BatchSize = 0

\* The exception leaves refresh_cache; get_session closes the session, which
\* discards what was not committed.
Abort(error) ==
    /\ pc' = "done"
    /\ session' = EmptySession
    /\ result' = Raised("refresh", error)

\* cache.py:53-58: fetch the feed, fail when there is none, start the loop.
RefreshCall(response) ==
    LET feed == FetchProductFeed(response)
    IN  /\ cacheBefore' = cache
        /\ commits' = 0
        /\ processed' = 0
        /\ IF feed = None
           THEN /\ Abort("RuntimeError")
                /\ payload' = None
                /\ idx' = 0
                /\ sameAsPrev' = FALSE
           ELSE /\ payload' = feed
                /\ sameAsPrev' = (pc = "done" /\ result.op = "refresh" /\ feed = payload)
                /\ IF IterEntries(feed[1]).ok
                   THEN /\ pc' = "loop"
                        /\ idx' = 1
                        /\ session' = EmptySession
                        /\ result' = NoResult
                   ELSE /\ Abort("AttributeError")
                        /\ idx' = 0
        /\ UNCHANGED <<cache, runs, files, calls, wizard, peer, clock>>

\* refresh_cache is called; `responses` are the answers the endpoint may give.
RefreshBegin(responses) ==
    /\ pc = "idle"
    /\ \E response \in responses : RefreshCall(response)

\* refresh_cache is called again right after a refresh, and the endpoint
\* serves the document it served then.
RefreshAgain ==
    /\ pc = "done"
    /\ result.op = "refresh"
    /\ payload # None
    /\ RefreshCall(Response("ok", payload[1]))

\* cache.py:59-105: one iteration of the loop.
RefreshEntry ==
    /\ pc = "loop"
    /\ idx <= ListLen(EntryList)
    /\ LET entry == ListAt(EntryList, idx)
           article_number == ArticleNumberOf(entry.props)
           upserted == Upsert(cache, session, article_number,
                              DerivedFields(entry.props, clock))
           done == Commit(cache, upserted, clock)
       IN  IF entry.shape = "notmapping"
           THEN /\ Abort("AttributeError")
                /\ UNCHANGED <<cache, idx, processed, commits>>
           ELSE IF article_number = <<>>
           THEN /\ idx' = idx + 1
                /\ UNCHANGED <<cache, pc, processed, session, commits, result>>
           ELSE IF ~BatchFull(processed + 1)
           THEN /\ idx' = idx + 1
                /\ processed' = processed + 1
                /\ session' = upserted
                /\ UNCHANGED <<cache, pc, commits, result>>
           ELSE IF done.ok
           THEN /\ idx' = idx + 1
                /\ processed' = processed + 1
                /\ cache' = done.table
                /\ session' = EmptySession
                /\ commits' = commits + 1
                /\ UNCHANGED <<pc, result>>
           ELSE /\ Abort("IntegrityError")
                /\ processed' = processed + 1
                /\ UNCHANGED <<cache, idx, commits>>
    /\ UNCHANGED <<runs, files, calls, wizard, peer, clock, payload, cacheBefore, sameAsPrev>>

\* cache.py:107-108: the last commit and the return.
RefreshFinish ==
    /\ pc = "loop"
    /\ idx > ListLen(EntryList)
    /\ LET done == Commit(cache, session, clock)
       IN  IF done.ok
           THEN /\ cache' = done.table
                /\ commits' = commits + 1
                /\ pc' = "done"
                /\ session' = EmptySession
                /\ result' = Returned("refresh", processed)
           ELSE /\ Abort("IntegrityError")
                /\ UNCHANGED <<cache, commits>>
    /\ UNCHANGED <<runs, files, calls, wizard, peer, clock, payload, idx, processed,
                   cacheBefore, sameAsPrev>>

NextRefresh ==
    \/ Tick
    \/ Return
    \/ RefreshBegin(ShortResponses)
    \/ RefreshAgain
    \/ RefreshEntry
    \/ RefreshFinish

SpecRefresh == Init /\ [][NextRefresh]_vars

\* ------------------------------------------------- feeds longer than a batch

\* Lists around the commit boundary: at most one leading entry, a run of
\* BatchSize - 1 or BatchSize copies of the M1 entry, at most MaxTail
\* trailing entries; and the one-entry feed that first caches M1.
MaxTail == 1

TailEntries == {EOther, EBlank, NotMappingEntry}

RECURSIVE TailsUpTo(_)
TailsUpTo(n) ==
    IF n = 0 THEN {<<>>}
    ELSE LET shorter == TailsUpTo(n - 1)
         IN  shorter \cup {Append(l, <<e, 1>>) : l \in shorter, e \in TailEntries}

LongDocs ==
    {ListDoc(head \o << <<ESparse, n>> >> \o tail) :
        head \in {<<>>, << <<EOther, 1>> >>},
        n \in {BatchSize - 1, BatchSize},
        tail \in TailsUpTo(MaxTail)}

BatchResponses == {Response("ok", d) : d \in LongDocs \cup {SingleDoc(EFull)}}

\* Refreshes over long feeds; the clock stands still.
NextBatch ==
    \/ Return
    \/ RefreshBegin(BatchResponses)
    \/ RefreshEntry
    \/ RefreshFinish

SpecBatch == Init /\ [][NextBatch]_vars

\* ------------------------------------------------------ concurrent refreshes

\* A second process runs refresh_cache on the same store with a session of
\* its own (cli.py cmd_refresh_cache under get_session). Its lookups read the
\* committed rows, its added objects stay in its session until it commits.

PeerAbort(local, error) ==
    [local EXCEPT !.pc = "done", !.session = EmptySession,
                  !.result = Raised("refresh", error)]

\* cache.py:53-58 in the second process.
PeerCall(response) ==
    LET feed == FetchProductFeed(response)
        begun == [peer EXCEPT !.commits = 0, !.processed = 0]
    IN  /\ peer' = IF feed = None
                   THEN [PeerAbort(begun, "RuntimeError") EXCEPT !.payload = None, !.idx = 0]
                   ELSE IF IterEntries(feed[1]).ok
                   THEN [begun EXCEPT !.payload = feed, !.pc = "loop", !.idx = 1,
                                      !.session = EmptySession, !.result = NoResult]
                   ELSE [PeerAbort(begun, "AttributeError") EXCEPT !.payload = feed, !.idx = 0]
        /\ UNCHANGED <<cache, runs, files, calls, wizard, clock, pc, payload, idx,
                       processed, session, commits, result, cacheBefore, sameAsPrev>>

PeerBegin(responses) ==
    /\ peer.pc = "idle"
    /\ \E response \in responses : PeerCall(response)

PeerList == IterEntries(peer.payload[1]).list

\* cache.py:59-105 in the second process: one iteration of the loop.
PeerEntry ==
    /\ peer.pc = "loop"
    /\ peer.idx <= ListLen(PeerList)
    /\ LET entry == ListAt(PeerList, peer.idx)
           article_number == ArticleNumberOf(entry.props)
           upserted == Upsert(cache, peer.session, article_number,
                              DerivedFields(entry.props, clock))
           done == Commit(cache, upserted, clock)
       IN  IF entry.shape = "notmapping"
           THEN /\ peer' = PeerAbort(peer, "AttributeError")
                /\ UNCHANGED cache
           ELSE IF article_number = <<>>
           THEN /\ peer' = [peer EXCEPT !.idx = @ + 1]
                /\ UNCHANGED cache
           ELSE IF ~BatchFull(peer.processed + 1)
           THEN /\ peer' = [peer EXCEPT !.idx = @ + 1, !.processed = @ + 1,
                                        !.session = upserted]
                /\ UNCHANGED cache
           ELSE IF done.ok
           THEN /\ peer' = [peer EXCEPT !.idx = @ + 1, !.processed = @ + 1,
                                        !.session = EmptySession, !.commits = @ + 1]
                /\ cache' = done.table
           ELSE /\ peer' = [PeerAbort(peer, "IntegrityError") EXCEPT !.processed = @ + 1]
                /\ UNCHANGED cache
    /\ UNCHANGED <<runs, files, calls, wizard, clock, pc, payload, idx, processed,
                   session, commits, result, cacheBefore, sameAsPrev>>

\* cache.py:107-108 in the second process.
PeerFinish ==
    /\ peer.pc = "loop"
    /\ peer.idx > ListLen(PeerList)
    /\ LET done == Commit(cache, peer.session, clock)
       IN  IF done.ok
           THEN /\ cache' = done.table
                /\ peer' = [peer EXCEPT !.pc = "done", !.session = EmptySession,
                                        !.commits = @ + 1,
                                        !.result = Returned("refresh", peer.processed)]
           ELSE /\ peer' = PeerAbort(peer, "IntegrityError")
                /\ UNCHANGED cache
    /\ UNCHANGED <<runs, files, calls, wizard, clock, pc, payload, idx, processed,
                   session, commits, result, cacheBefore, sameAsPrev>>

\* Feeds that share article numbers; the last carries M1 twice.
ConcDocs ==
    {ListDoc(l) :
        l \in { << <<EFull, 1>> >>, << <<EOther, 1>> >>,
                << <<ESparse, 1>>, <<EOther, 1>> >>,
                << <<EOther, 1>>, <<EFull, 1>> >>,
                << <<EFull, 1>>, <<ESparse, 1>> >> }}

ConcResponses == {Response("ok", d) : d \in ConcDocs}

NextConc ==
    \/ Tick
    \/ RefreshBegin(ConcResponses)
    \/ RefreshEntry
    \/ RefreshFinish
    \/ PeerBegin(ConcResponses)
    \/ PeerEntry
    \/ PeerFinish

\* Two processes refresh the empty cache, each once.
SpecConc == Init /\ [][NextConc]_vars

\* ---------------------------------------------------------------- currency

DigitChar(d) == <<"0", "1", "2", "3", "4", "5", "6", "7", "8", "9">>[d + 1]

RECURSIVE NatText(_)
NatText(n) == IF n < 10 THEN <<DigitChar(n)>> ELSE NatText(n \div 10) \o <<DigitChar(n % 10)>>

\* str(n) of an int
IntText(n) == IF n < 0 THEN <<"-">> \o NatText(-n) ELSE NatText(n)

RECURSIVE DropTrailingZeros(_)
DropTrailingZeros(t) ==
    IF Len(t) > 1 /\ t[Len(t)] = "0" THEN DropTrailingZeros(SubSeq(t, 1, Len(t) - 1)) ELSE t

RECURSIVE PadLeft(_, _)
PadLeft(t, n) == IF Len(t) >= n THEN t ELSE PadLeft(<<"0">> \o t, n)

\* round(value, 2) in cents, of a non-negative amount in 1/Unit units. An amount that
\* is a tie in decimal is rounded by Python as its binary value falls; it is
\* taken to the even cent here.
RoundCents(value) ==
    LET q == value \div 100
        r == value % 100
    IN  IF r < 50 THEN q
        ELSE IF r > 50 THEN q + 1
        ELSE IF q % 2 = 0 THEN q ELSE q + 1

\* The "," of "{:,}": a comma before every group of three digits.
RECURSIVE GroupThousands(_)
GroupThousands(digits) ==
    IF Len(digits) <= 3 THEN digits
    ELSE GroupThousands(SubSeq(digits, 1, Len(digits) - 3))
         \o <<",">> \o SubSeq(digits, Len(digits) - 2, Len(digits))

\* "{:,.2f}".format(value_rounded): the sign, then the magnitude
FormatUS(value) ==
    LET cents == RoundCents(IF value < 0 THEN -value ELSE value)
    IN  (IF value < 0 THEN <<"-">> ELSE <<>>)
        \o GroupThousands(NatText(cents \div 100)) \o <<".">> \o PadLeft(NatText(cents % 100), 2)

\* The amount formatted without the exchange of separators.
FormatCurrencyUS(value) == FormatUS(value)

\* generator.py _format_currency
FormatCurrency(value) ==
    Replace(Replace(Replace(FormatUS(value), ",", <<"X">>), ".", <<",">>), "X", <<".">>)

\* ------------------------------------------------------------------ generator

\* generator.py ProductInput
ProductInput(article_number, discount, quantity) ==
    [article_number |-> article_number, discount |-> discount, quantity |-> quantity]

\* `x or ...` on an optional float: None and 0.0 are both false.
Truthy(price) == price # None /\ price[1] # 0

\* generator.py _select_price
SelectPrice(product) ==
    IF Truthy(product.price_dealer) THEN product.price_dealer[1]
    ELSE IF Truthy(product.price_retail_net) THEN product.price_retail_net[1]
    ELSE IF Truthy(product.price_retail_vat) THEN product.price_retail_vat[1]
    ELSE IF Truthy(product.price_retail_gross) THEN product.price_retail_gross[1]
    ELSE 0

\* A selection that takes the first URL whatever it names.
ExtractFirstUrl(detail_images_list, article_number) ==
    IF detail_images_list = <<>> THEN None ELSE Some(detail_images_list[1])

\* generator.py _extract_first_detail_image
ExtractFirstDetailImage(detail_images_list, article_number) ==
    IF detail_images_list = <<>> THEN None
    ELSE IF \E i \in 1..Len(detail_images_list) :
                Contains(detail_images_list[i], article_number)
    THEN Some(detail_images_list[
            CHOOSE i \in 1..Len(detail_images_list) :
                /\ Contains(detail_images_list[i], article_number)
                /\ \A j \in 1..(i - 1) : ~Contains(detail_images_list[j], article_number)])
    ELSE Some(detail_images_list[1])

\* `a or b or default` on texts.
OrText(a, b, default) == IF a # <<>> THEN a ELSE IF b # <<>> THEN b ELSE default

UnknownProduct ==
    <<"U", "n", "k", "n", "o", "w", "n", " ", "P", "r", "o", "d", "u", "c", "t">>

\* A discount taken off as an amount of money.
DiscountedPriceFlat(price, discount) ==
    IF discount > 0 THEN price - discount * Unit ELSE price

\* generator.py:73, price * (1 - discount / 100.0) if discount > 0 else price
DiscountedPrice(price, discount) ==
    IF discount > 0 THEN (price * (100 - discount)) \div 100 ELSE price

\* generator.py _prepare_products: the dictionary built for one resolved line item.
\* price * (1 - discount / 100.0) is exact here for prices of two decimals.
SelectedProduct(cached, product_input, language) ==
    LET price == SelectPrice(cached)
        discounted_price == DiscountedPrice(price, product_input.discount)
        loaded == IF cached.detail_images_urls # <<>>
                  THEN JsonLoads(cached.detail_images_urls) ELSE None
        detail_images == IF loaded = None THEN <<>> ELSE loaded[1]
        name_de == OrText(cached.name_de, cached.name_en, UnknownProduct)
        name_en == OrText(cached.name_en, cached.name_de, UnknownProduct)
        desc_de == OrText(cached.description_de, cached.description_en, <<>>)
        desc_en == OrText(cached.description_en, cached.description_de, <<>>)
    IN  [ ArticleNumber   |-> cached.article_number,
          Name            |-> IF language = "de" THEN name_de ELSE name_en,
          NameDE          |-> name_de,
          NameEN          |-> name_en,
          Price           |-> price,
          DiscountedPrice |-> discounted_price,
          FormattedPrice  |-> FormatCurrency(discounted_price),
          OriginalPrice   |-> IF product_input.discount > 0
                              THEN Some(FormatCurrency(price)) ELSE None,
          Discount        |-> product_input.discount,
          Quantity        |-> product_input.quantity,
          TotalPrice      |-> discounted_price * product_input.quantity,
          FormattedTotalPrice |-> FormatCurrency(discounted_price * product_input.quantity),
          ImageUrl        |-> ExtractFirstDetailImage(detail_images, cached.article_number),
          Category        |-> cached.category,
          Description     |-> IF language = "de" THEN desc_de ELSE desc_en,
          Artist          |-> cached.artist,
          Label           |-> cached.label,
          Genre           |-> cached.genre,
          ReleaseDate     |-> cached.release_date ]

\* A lookup that gives up after the first article that is not cached.
RECURSIVE ResolveUntilMiss(_, _, _)
ResolveUntilMiss(table, inputs, language) ==
    IF inputs = <<>> THEN <<>>
    ELSE LET cached == QueryFirst(table, EmptySession, Head(inputs).article_number)
         IN  IF cached = None THEN <<>>
             ELSE <<SelectedProduct(cached[1], Head(inputs), language)>>
                  \o ResolveUntilMiss(table, Tail(inputs), language)

\* generator.py _prepare_products, the loop: the resolved line
\* items in request order; an article that is not cached is left out.
RECURSIVE Resolve(_, _, _)
Resolve(table, inputs, language) ==
    IF inputs = <<>> THEN <<>>
    ELSE LET cached == QueryFirst(table, EmptySession, Head(inputs).article_number)
         IN  (IF cached = None THEN <<>>
              ELSE <<SelectedProduct(cached[1], Head(inputs), language)>>)
             \o Resolve(table, Tail(inputs), language)

\* A preparation that accepts an empty selection.
PrepareProductsAllowEmpty(table, inputs, language) ==
    [ok |-> TRUE, selected |-> Resolve(table, inputs, language)]

\* generator.py _prepare_products: raises when nothing was resolved.
PrepareProducts(table, inputs, language) ==
    LET selected == Resolve(table, inputs, language)
    IN  [ok |-> selected # <<>>, selected |-> selected]

\* generator.py _render_html, the discount of one line
DiscountAmount(p) ==
    IF p.Discount > 0 THEN (p.Price - p.DiscountedPrice) * p.Quantity ELSE 0

RECURSIVE TotalAmount(_)
TotalAmount(products) ==
    IF products = <<>> THEN 0
    ELSE Head(products).TotalPrice + TotalAmount(Tail(products))

RECURSIVE TotalDiscountAmount(_)
TotalDiscountAmount(products) ==
    IF products = <<>> THEN 0
    ELSE DiscountAmount(Head(products)) + TotalDiscountAmount(Tail(products))

\* generator.py _render_html: the rendered page is the context the template
\* is given (the date strings left out); a template that does not compile or
\* does not render raises.
RenderHtml(template, products, language, validity_date, now) ==
    IF template.status # "ok" THEN None
    ELSE Some([ template              |-> template.name,
                products              |-> products,
                total_products        |-> Len(products),
                total_amount          |-> TotalAmount(products),
                formatted_total_amount |-> FormatCurrency(TotalAmount(products)),
                total_discount_amount |-> TotalDiscountAmount(products),
                formatted_total_discount |-> FormatCurrency(TotalDiscountAmount(products)),
                validity_date         |-> validity_date,
                language              |-> language,
                generation_time       |-> now ])

\* generator.py generate_newsletter, the list written to article_numbers
RECURSIVE RequestList(_)
RequestList(products) ==
    IF products = <<>> THEN <<>>
    ELSE << [ article_number |-> Head(products).article_number,
              discount       |-> Head(products).discount,
              quantity       |-> Head(products).quantity ] >>
         \o RequestList(Tail(products))

\* A run record that stores the file name in place of the path of the page.
RunRecordBareName(id, filename, a, selected, html_path, pdf_path, now) ==
    [ id              |-> id,
      filename        |-> filename,
      template_name   |-> a.template.name,
      language        |-> a.language,
      validity_date   |-> a.validity_date,
      products_count  |-> Len(selected),
      article_numbers |-> JsonDumps(RequestList(a.products)),
      html_path       |-> <<"", filename, "html">>,
      pdf_path        |-> pdf_path,
      output_dir      |-> a.output_dir,
      created_at      |-> now ]

\* generator.py generate_newsletter, the NewsletterRun it stores
RunRecord(id, filename, a, selected, html_path, pdf_path, now) ==
    [ id              |-> id,
      filename        |-> filename,
      template_name   |-> a.template.name,
      language        |-> a.language,
      validity_date   |-> a.validity_date,
      products_count  |-> Len(selected),
      article_numbers |-> JsonDumps(RequestList(a.products)),
      html_path       |-> html_path,
      pdf_path        |-> pdf_path,
      output_dir      |-> a.output_dir,
      created_at      |-> now ]

\* A file name that carries the clock alone.
FileNameNoLanguage(language, now) == <<"newsletter", "", now>>

\* generator.py generate_newsletter: the file names carry the clock to the second.
FileName(language, now) == <<"newsletter", language, now>>
HtmlPath(output_dir, language, now) == <<output_dir, FileName(language, now), "html">>
PdfPath(output_dir, language, now) == <<output_dir, FileName(language, now), "pdf">>

\* A failure that leaves a committed run record behind.
FailedAfterCommit(error) ==
    /\ result' = Raised("generate", error)
    /\ runs' = Append(runs, [id |-> Len(runs) + 1, created_at |-> clock])

\* An exception leaves generate_newsletter: no run record is added.
Failed(error) ==
    /\ result' = Raised("generate", error)
    /\ UNCHANGED runs

\* The run table is replaced by the new record.
AddRunReplacing(runlist, run) == <<run>>

\* generator.py generate_newsletter, db.add(run); db.commit(): the record
\* is inserted after the ones the table holds.
AddRun(runlist, run) == Append(runlist, run)

\* generator.py generate_newsletter, called with the arguments `a`;
\* a.fault names the step the environment makes fail, if any.
GenerateCall(a) ==
    LET prepared == PrepareProducts(cache, a.products, a.language)
        selected == prepared.selected
        html_content == RenderHtml(a.template, selected, a.language, a.validity_date, clock)
        html_path == HtmlPath(a.output_dir, a.language, clock)
        pdf_path == PdfPath(a.output_dir, a.language, clock)
        with_html == (html_path :> html_content[1]) @@ files
        with_pdf == (pdf_path :> [pdf_of |-> html_content[1]]) @@ with_html
        written == IF a.generate_pdf THEN with_pdf ELSE with_html
        run == RunRecord(Len(runs) + 1, FileName(a.language, clock), a, selected,
                         html_path, IF a.generate_pdf THEN Some(pdf_path) ELSE None,
                         clock)
    IN  /\ calls' = calls + 1
        /\ pc' = "done"
        /\ IF ~prepared.ok
           THEN Failed("RuntimeError: no valid products") /\ UNCHANGED files
           ELSE IF html_content = None
           THEN Failed("TemplateError") /\ UNCHANGED files
           ELSE IF a.fault = "html_write"
           THEN Failed("OSError") /\ UNCHANGED files
           ELSE IF a.generate_pdf /\ a.fault = "pdf_import"
           THEN Failed("RuntimeError: WeasyPrint is not installed") /\ files' = with_html
           ELSE IF a.generate_pdf /\ a.fault = "pdf_write"
           THEN Failed("OSError") /\ files' = with_html
           ELSE IF a.fault = "commit"
           THEN Failed("SQLAlchemyError") /\ files' = written
           ELSE /\ files' = written
                /\ runs' = AddRun(runs, run)
                /\ result' = Returned("generate", run.id)
        /\ UNCHANGED <<cache, clock, peer, payload, idx, processed, session, commits,
                       cacheBefore, sameAsPrev>>

\* generate_newsletter is called with one of the argument records `args`.
GenerateNewsletter(args) ==
    /\ pc = "idle"
    /\ calls < MaxRuns
    /\ \E a \in args : GenerateCall(a)
    /\ UNCHANGED wizard

\* Sample requests: M1 and M2 are articles of the sample feeds, M3 of none.
M3 == <<"M", "3">>
P1 == ProductInput(M1, 0, 1)
P2 == ProductInput(M2, 10, 2)
P3 == ProductInput(M3, 50, 3)
Requests ==
    {<<>>, <<P3>>, <<P3, P3>>, <<P1>>, <<P1, P3>>, <<P3, P2>>, <<P2, P1>>}

Templates == {[name |-> "basic", status |-> "ok"], [name |-> "broken", status |-> "render_error"]}
Faults == {"none", "html_write", "pdf_import", "pdf_write", "commit"}

GenerateArgs ==
    [ template : Templates, language : {"de", "en"}, products : Requests,
      validity_date : {None}, generate_pdf : BOOLEAN, output_dir : {"out"},
      fault : Faults ]

\* The cache after a refresh of the feed <<EFull, EOther>> at time 0.
SeedCache ==
    LET s1 == Upsert({}, EmptySession, ArticleNumberOf(FullProps), DerivedFields(FullProps, 0))
        s2 == Upsert({}, s1, ArticleNumberOf(OtherProps), DerivedFields(OtherProps, 0))
    IN  Commit({}, s2, 0).table

InitGen == InitWith(SeedCache)

NextGen ==
    \/ Tick
    \/ Return
    \/ GenerateNewsletter(GenerateArgs)

\* Newsletter generation over a cache that holds M1 and M2.
SpecGen == InitGen /\ [][NextGen]_vars

\* The whole program over a few feeds and requests.
CoreResponses ==
    {Response("ok", ListDoc(l)) :
        l \in { << <<EFull, 1>> >>, << <<EOther, 1>> >>, << <<ESparse, 1>>, <<EOther, 1>> >> }}
        \cup {Response("timeout", NoEntryDoc)}

CoreArgs ==
    [ template : {[name |-> "basic", status |-> "ok"]}, language : {"de"},
      products : { <<P1>>, <<P3, P2>> },
      validity_date : {None}, generate_pdf : BOOLEAN, output_dir : {"out"},
      fault : {"none", "pdf_import"} ]

Next ==
    \/ Tick
    \/ Return
    \/ RefreshBegin(CoreResponses)
    \/ RefreshAgain
    \/ RefreshEntry
    \/ RefreshFinish
    \/ GenerateNewsletter(CoreArgs)

Spec == Init /\ [][Next]_vars

\* A newsletter generated earlier, at time 0, from the seeded cache.
EarlierArgs ==
    [ template |-> [name |-> "basic", status |-> "ok"], language |-> "de",
      products |-> <<P1>>, validity_date |-> None, generate_pdf |-> FALSE,
      output_dir |-> "out", fault |-> "none" ]

EarlierSelected == PrepareProducts(SeedCache, EarlierArgs.products, EarlierArgs.language).selected

EarlierPage ==
    RenderHtml(EarlierArgs.template, EarlierSelected, EarlierArgs.language,
               EarlierArgs.validity_date, 0)[1]

EarlierRun ==
    RunRecord(1, FileName(EarlierArgs.language, 0), EarlierArgs, EarlierSelected,
              HtmlPath(EarlierArgs.output_dir, EarlierArgs.language, 0), None, 0)

\* The store after that earlier call.
InitRuns ==
    InitStore(SeedCache, <<EarlierRun>>,
              HtmlPath(EarlierArgs.output_dir, EarlierArgs.language, 0) :> EarlierPage)

\* The whole program on a store that already holds a run record.
SpecRuns == InitRuns /\ [][Next]_vars

\* Newsletter generation into a directory that holds an earlier newsletter.
SpecFiles == InitRuns /\ [][NextGen]_vars

\* --------------------------------------------------------------------- claims

\* What the claims say of a feed, stated on the document itself.

\* The entry carries an article number with a character that is not whitespace.
HasArticle(entry) ==
    /\ entry.shape = "props"
    /\ \E i \in 1..Len(entry.props) :
        /\ entry.props[i][1] = D("Artikelnummer")
        /\ LET v == entry.props[i][2]
               t == IF v.kind = "attrdict" THEN AttrDictRepr ELSE v.text
           IN  \E j \in 1..Len(t) : t[j] \notin WhiteSpace

RECURSIVE KeyedCount(_)
KeyedCount(blocks) ==
    IF blocks = <<>> THEN 0
    ELSE (IF HasArticle(Head(blocks)[1]) THEN Head(blocks)[2] ELSE 0) + KeyedCount(Tail(blocks))

\* The positions of the list whose entry is upserted under `article_number`.
PositionsOf(blocks, article_number) ==
    {i \in 1..ListLen(blocks) :
        /\ HasArticle(ListAt(blocks, i))
        /\ ArticleNumberOf(ListAt(blocks, i).props) = article_number}

LastPosition(S) == CHOOSE i \in S : \A j \in S : j <= i

RefreshDone == pc = "done" /\ result.op = "refresh"
RefreshOk == RefreshDone /\ result.status = "ok"

\* C1: the product cache holds at most one record per article number, at
\* every point of every sequence of refresh_cache calls; a record that was
\* cached when a call began is still the one record of its article number
\* (same id, same creation time), so an entry for it updated it in place.
C1_OneRecordPerArticle ==
    /\ \A r1 \in cache : \A r2 \in cache :
        r1.article_number = r2.article_number => r1 = r2
    /\ \A b \in cacheBefore :
        \E r \in cache :
            /\ r.id = b.id
            /\ r.article_number = b.article_number
            /\ r.created_at = b.created_at

\* A refresh returned after updating in place a record cached before it.
C1_Witness ==
    /\ RefreshOk
    /\ \E b \in cacheBefore : \E r \in cache :
        /\ r.id = b.id
        /\ r.name_de # b.name_de
        /\ PositionsOf(EntryList, b.article_number) # {}

\* C2: a refresh of the document the refresh right before it fetched leaves
\* the same article numbers, one row each, with the values of the first run in
\* every field but last_updated, which has not gone backwards.
C2_Idempotent ==
    (RefreshDone /\ sameAsPrev) =>
        /\ {r.article_number : r \in cache} = {b.article_number : b \in cacheBefore}
        /\ Cardinality(cache) = Cardinality(cacheBefore)
        /\ \A r \in cache : \E b \in cacheBefore :
            /\ b.article_number = r.article_number
            /\ \A f \in (DOMAIN r) \ {"last_updated"} : r[f] = b[f]
            /\ r.last_updated >= b.last_updated

\* The second run of a document returned and advanced a record's last_updated.
C2_Witness ==
    /\ RefreshOk
    /\ sameAsPrev
    /\ result.count > 0
    /\ \E r \in cache : \E b \in cacheBefore :
        r.id = b.id /\ r.last_updated > b.last_updated

\* C3: a refresh_cache call whose fetch yields no data ends at once with an
\* error, not with a count, and leaves the cache as it was.
C3_NoFeedAborts ==
    [][\A response \in FailedResponses :
        (pc = "idle" /\ RefreshCall(response)) =>
            /\ pc' = "done"
            /\ result'.status = "error"
            /\ result'.error = "RuntimeError"
            /\ cache' = cache
            /\ commits' = 0
            /\ session' = EmptySession]_vars

\* A call on a non-empty cache ended with the fetch error.
C3_Witness ==
    /\ RefreshDone
    /\ result.error = "RuntimeError"
    /\ cache # {}
    /\ cache = cacheBefore

\* C4 (as claimed): a refresh that ends in an error leaves the committed
\* cache as it was before the call.
C4_FailedRefreshLeavesCache ==
    (RefreshDone /\ result.status = "error") => cache = cacheBefore

C6_CommitBatches ==
    /\ pc = "loop" =>
        /\ commits = processed \div BatchSize
        /\ session.n = processed % BatchSize
        /\ session.n <= BatchSize
        /\ processed <= KeyedCount(EntryList)
    /\ RefreshOk =>
        /\ commits = (KeyedCount(EntryList) \div BatchSize) + 1
        /\ processed = KeyedCount(EntryList)

\* A refresh of a list with a skipped entry returned after two commits.
C6_Witness ==
    /\ RefreshOk
    /\ commits = 2
    /\ result.count >= BatchSize
    /\ result.count < ListLen(EntryList)

\* The property each text and price field is read from.
TextFieldKey ==
    [ name_de |-> "Bezeichnung-Deutsch", name_en |-> "Bezeichnung-Englisch",
      category |-> "Artikelgruppe", description_de |-> "Langtext-Deutsch",
      description_en |-> "Langtext-Englisch", artist |-> "Kuenstler",
      label |-> "Label", genre |-> "Genre",
      release_date |-> "Veroeffentlichungsdatum", main_image_url |-> "Produktbild" ]
PriceFieldKey ==
    [ price_dealer |-> "dealer_price", price_retail_net |-> "retail_price_net",
      price_retail_vat |-> "retail_price_vat", price_retail_gross |-> "retail_price_gross" ]

\* C7: after a refresh that returns, every field refresh_cache derives of a
\* record whose article number is in the feed is the value derived from the
\* last feed entry of that article number alone: a field whose property the
\* entry lacks is empty (a price absent, the inventory 0, the image list
\* empty), whatever the record held before, and is_active is true.
C7_OverwriteNotMerge ==
    RefreshOk =>
        \A r \in cache :
            LET at == PositionsOf(EntryList, r.article_number)
                props == ListAt(EntryList, LastPosition(at)).props
                derived == DerivedFields(props, 0)
            IN  at # {} =>
                /\ \A f \in (DOMAIN derived) \ {"last_updated"} : r[f] = derived[f]
                /\ \A f \in DOMAIN TextFieldKey :
                    ~HasKey(props, D(TextFieldKey[f])) => r[f] = <<>>
                /\ \A f \in DOMAIN PriceFieldKey :
                    ~HasKey(props, D(PriceFieldKey[f])) => r[f] = None
                /\ ~HasKey(props, D("Gesamtlagerbestand")) => r.inventory_total = 0
                /\ ~HasKey(props, D("Detailbilder")) => r.detail_images_urls = JsonDumps(<<>>)
                /\ r.is_active = TRUE

\* A refresh emptied a name, a price and the inventory a record held before.
C7_Witness ==
    /\ RefreshOk
    /\ \E b \in cacheBefore : \E r \in cache :
        /\ r.id = b.id
        /\ b.name_de # <<>> /\ r.name_de = <<>>
        /\ b.price_dealer # None /\ r.price_dealer = None
        /\ b.inventory_total > 0 /\ r.inventory_total = 0
        /\ b.detail_images_urls # r.detail_images_urls

\* The article numbers the feed being processed carries.
FeedArticles ==
    IF payload = None \/ ~IterEntries(payload[1]).ok THEN {}
    ELSE {ArticleNumberOf(ListAt(EntryList, i).props) :
            i \in {j \in 1..ListLen(EntryList) : HasArticle(ListAt(EntryList, j))}}

\* C8: no step of any sequence of refresh and generate operations removes a
\* cache record: every stored record is still stored after the step under the
\* same id and article number, and a record whose article number the feed
\* being processed does not carry keeps every stored value.
C8_NeverDeleted ==
    [][\A r \in cache :
        \E r2 \in cache' :
            /\ r2.id = r.id
            /\ r2.article_number = r.article_number
            /\ r.article_number \notin FeedArticles => r2 = r]_vars

\* After a generation, a refresh wrote a feed that does not carry the
\* article of a record cached before; that record is still cached.
C8_Witness ==
    /\ RefreshOk
    /\ runs # <<>>
    /\ cache # cacheBefore
    /\ \E r \in cacheBefore : r.article_number \notin FeedArticles /\ r \in cache

\* The article numbers cached in `table`.
CachedNumbers(table) == {r.article_number : r \in table}

\* The line items of a request whose article is cached, in request order.
CachedItems(table, products) ==
    SelectSeq(products, LAMBDA p : p.article_number \in CachedNumbers(table))

Mixed(table, products) ==
    /\ CachedItems(table, products) # <<>>
    /\ CachedItems(table, products) # products

C10_NoValidProducts ==
    [][\A a \in GenerateArgs :
        ( /\ pc = "idle"
          /\ pc' = "done"
          /\ CachedItems(cache, a.products) = <<>>
          /\ GenerateCall(a) ) =>
            /\ result' = Raised("generate", "RuntimeError: no valid products")
            /\ files' = files
            /\ runs' = runs]_vars

\* A call on a non-empty cache ended with the "no valid products" error.
C10_Witness ==
    /\ pc = "done"
    /\ result = Raised("generate", "RuntimeError: no valid products")
    /\ cache # {}
    /\ runs = <<>>
    /\ files = <<>>
    /\ calls > 0

\* The step of generate_newsletter(a) that fails before the run record is
\* persisted, if any: resolution, rendering, the HTML write or the PDF write.
FailsBeforePersist(table, a) ==
    \/ CachedItems(table, a.products) = <<>>
    \/ a.template.status # "ok"
    \/ a.fault = "html_write"
    \/ a.generate_pdf /\ a.fault \in {"pdf_import", "pdf_write"}

\* C11: the run record is persisted last: a generate_newsletter call that
\* fails in product resolution, rendering, the HTML write or the PDF write
\* (a missing renderer included) leaves the run records unchanged, and a call
\* that adds a run record has written the HTML file and, when a PDF was
\* requested, the PDF file.
C11_RunRecordLast ==
    [][\A a \in GenerateArgs :
        ( /\ pc = "idle"
          /\ pc' = "done"
          /\ GenerateCall(a) ) =>
            /\ FailsBeforePersist(cache, a) => runs' = runs
            /\ runs' # runs =>
                /\ HtmlPath(a.output_dir, a.language, clock) \in DOMAIN files'
                /\ a.generate_pdf =>
                    PdfPath(a.output_dir, a.language, clock) \in DOMAIN files']_vars

\* The PDF step failed after the HTML file was written: no run record.
C11_Witness ==
    /\ pc = "done"
    /\ result = Raised("generate", "RuntimeError: WeasyPrint is not installed")
    /\ files # <<>>
    /\ runs = <<>>

\* ------------------------------------------------------------ products file

\* A JSON value as json.loads gives it: None, a bool, an int, a float (in
\* 1/Unit units), a str, a list of values or a dict (a sequence of
\* <<key, value>> members with distinct keys).
JNull == [kind |-> "null", n |-> 0, text |-> <<>>, items |-> <<>>]
JBool(b) == [kind |-> "bool", n |-> IF b THEN 1 ELSE 0, text |-> <<>>, items |-> <<>>]
JInt(n) == [kind |-> "int", n |-> n, text |-> <<>>, items |-> <<>>]
JFloat(units) == [kind |-> "float", n |-> units, text |-> <<>>, items |-> <<>>]
JStr(t) == [kind |-> "str", n |-> 0, text |-> t, items |-> <<>>]
JArr(items) == [kind |-> "array", n |-> 0, text |-> <<>>, items |-> items]
JObj(members) == [kind |-> "object", n |-> 0, text |-> <<>>, items |-> members]

\* dict.get(key, default)
ObjGet(obj, key, default) ==
    IF \E i \in 1..Len(obj.items) : obj.items[i][1] = key
    THEN obj.items[CHOOSE i \in 1..Len(obj.items) : obj.items[i][1] = key][2]
    ELSE default

\* str(x) of a float with at most FracDigits decimals: "10.5", "10.0", "-0.5".
FloatText(units) ==
    LET a == IF units < 0 THEN -units ELSE units
    IN  (IF units < 0 THEN <<"-">> ELSE <<>>)
        \o NatText(a \div Unit) \o <<".">>
        \o DropTrailingZeros(PadLeft(NatText(a % Unit), FracDigits))

\* str(value); of a list or dict only the brackets are written out.
StrOf(v) ==
    CASE v.kind = "str"    -> v.text
      [] v.kind = "null"   -> <<"N", "o", "n", "e">>
      [] v.kind = "bool"   -> IF v.n = 1 THEN <<"T", "r", "u", "e">>
                              ELSE <<"F", "a", "l", "s", "e">>
      [] v.kind = "int"    -> IntText(v.n)
      [] v.kind = "float"  -> FloatText(v.n)
      [] v.kind = "array"  -> <<"[", "]">>
      [] v.kind = "object" -> <<"{", "}">>

\* int(x) of a float: truncation towards zero.
Trunc(units) == IF units >= 0 THEN units \div Unit ELSE -((-units) \div Unit)

\* cli.py:49-50, int(item.get(...)): an int or bool is itself, a float is
\* truncated, a str is parsed (ValueError), anything else is a TypeError.
IntOf(v) ==
    CASE v.kind \in {"int", "bool"} -> [ok |-> TRUE, n |-> v.n, error |-> ""]
      [] v.kind = "float" -> [ok |-> TRUE, n |-> Trunc(v.n), error |-> ""]
      [] v.kind = "str" ->
            IF ParseInt(v.text) # None
            THEN [ok |-> TRUE, n |-> ParseInt(v.text)[1], error |-> ""]
            ELSE [ok |-> FALSE, n |-> 0,
                  error |-> "ValueError: invalid literal for int() with base 10"]
      [] OTHER -> [ok |-> FALSE, n |-> 0,
                   error |-> "TypeError: int() argument must be a string or a real number"]

LoadFailed(error) == [ok |-> FALSE, products |-> <<>>, error |-> error]

AtIndex(index) == "RuntimeError: Product at index " \o ToString(index)

\* cli.py:40-56, the loop of _load_products_file from the element at
\* position index (counted from 0) on; `products` are the items accepted so far.
RECURSIVE LoadItems(_, _, _)
LoadItems(items, index, products) ==
    IF items = <<>> THEN [ok |-> TRUE, products |-> products, error |-> ""]
    ELSE LET item == Head(items)
             article_number == Strip(StrOf(ObjGet(item, "article_number", JStr(<<>>))), WhiteSpace)
             discount == IntOf(ObjGet(item, "discount", JInt(0)))
             quantity == IntOf(ObjGet(item, "quantity", JInt(1)))
         IN  IF item.kind # "object"
             THEN LoadFailed(AtIndex(index) \o " must be an object")
             ELSE IF article_number = <<>>
             THEN LoadFailed(AtIndex(index) \o " missing article_number")
             ELSE IF ~discount.ok THEN LoadFailed(discount.error)
             ELSE IF ~quantity.ok THEN LoadFailed(quantity.error)
             ELSE IF discount.n < 0 \/ discount.n > 100
             THEN LoadFailed(AtIndex(index) \o " has invalid discount: " \o ToString(discount.n))
             ELSE IF quantity.n < 1
             THEN LoadFailed(AtIndex(index) \o " has invalid quantity: " \o ToString(quantity.n))
             ELSE LoadItems(Tail(items), index + 1,
                            Append(products, ProductInput(article_number, discount.n, quantity.n)))

\* cli.py _load_products_file, of the text of the file
LoadProductsFile(text) ==
    LET parsed == JsonLoads(text)
    IN  IF parsed = None
        THEN LoadFailed("RuntimeError: Failed to parse products file")
        ELSE IF parsed[1].kind # "array"
        THEN LoadFailed("RuntimeError: Products file must contain a JSON array")
        ELSE LoadItems(parsed[1].items, 0, <<>>)

\* --------------------------------------------------------- generate command

\* templates.py resolve_template and validate_template, of the template file
\* <name>_<language>.html: "" when the file is there and compiles.
ValidateTemplate(template) ==
    IF template.status = "missing" THEN "FileNotFoundError: Template not found"
    ELSE IF template.status = "syntax_error" THEN "ValueError: Invalid template syntax"
    ELSE ""

\* cli.py:264-266: main returns 1 when the command raised.
ExitCode(res) == IF res.status = "ok" THEN 0 ELSE 1

\* The command raised before generate_newsletter was called.
CmdFailed(error) ==
    /\ pc' = "done"
    /\ result' = Raised("generate", error)
    /\ UNCHANGED <<cache, runs, files, calls, clock, peer, payload, idx, processed,
                   session, commits, cacheBefore, sameAsPrev>>

\* cli.py cmd_generate under main, with the command line and files `c`.
CmdGenerateCall(c) ==
    LET loaded == LoadProductsFile(c.products_file)
    IN  IF ValidateTemplate(c.template) # ""
        THEN CmdFailed(ValidateTemplate(c.template))
        ELSE IF ~loaded.ok
        THEN CmdFailed(loaded.error)
        ELSE GenerateCall([ template      |-> c.template,
                            language      |-> c.language,
                            products      |-> loaded.products,
                            validity_date |-> c.validity_date,
                            generate_pdf  |-> c.generate_pdf,
                            output_dir    |-> c.output_dir,
                            fault         |-> c.fault ])

CmdGenerate(commands) ==
    /\ pc = "idle"
    /\ calls < MaxRuns
    /\ \E c \in commands : CmdGenerateCall(c)
    /\ UNCHANGED wizard

\* Sample products files.
Member(key, value) == <<key, value>>
Item(article, more) == JObj(<< Member("article_number", JStr(article)) >> \o more)

GoodElements ==
    { Item(M1, <<>>),
      Item(<<" ">> \o M2 \o <<" ">>, << Member("discount", JInt(10)), Member("quantity", JInt(2)) >>),
      Item(M3, << Member("discount", JInt(100)) >>) }

BadElements ==
    { JInt(5),
      JObj(<< Member("discount", JInt(10)) >>),
      Item(<<" ">>, <<>>),
      Item(M1, << Member("discount", JInt(101)) >>),
      Item(M1, << Member("discount", JInt(0 - 1)) >>),
      Item(M1, << Member("quantity", JInt(0)) >>),
      Item(M1, << Member("discount", JFloat(10 * Unit + Unit \div 2)) >>),
      Item(M1, << Member("quantity", JFloat(Unit + Unit \div 2)) >>),
      Item(M1, << Member("discount", JStr(<<"a", "b", "c">>)) >>),
      Item(M1, << Member("discount", JInt(200)), Member("quantity", JNull) >>) }

Elements == GoodElements \cup BadElements

ProductsFiles ==
    { <<"{">>, JsonDumps(JObj(<< Member("oops", JBool(TRUE)) >>)), JsonDumps(JArr(<<>>)) }
        \cup { JsonDumps(JArr(<<e>>)) : e \in Elements }
        \cup { JsonDumps(JArr(<<g, e>>)) : g \in GoodElements, e \in Elements }

Commands ==
    [ template : { [name |-> "basic", status |-> "ok"],
                   [name |-> "broken", status |-> "syntax_error"],
                   [name |-> "nowhere", status |-> "missing"] },
      language : {"de"}, products_file : ProductsFiles,
      validity_date : {None}, generate_pdf : BOOLEAN, output_dir : {"out"},
      fault : {"none", "pdf_import"} ]

\* ------------------------------------------------------------------- wizard

\* interactive.py:214-232, the arguments of the wizard's generate_newsletter
\* call for `language`.
WizardArgs(config, language) ==
    [ template      |-> config.templates[language],
      language      |-> language,
      products      |-> config.products,
      validity_date |-> config.validity_date,
      generate_pdf  |-> config.generate_pdf,
      output_dir    |-> config.output_dir,
      fault         |-> config.fault ]

\* interactive.py:214-232, one round of the loop over ("de", "en"):
\* resolve and validate the template of the language, then generate.
WizardRound(config, language) ==
    LET invalid == ValidateTemplate(config.templates[language])
    IN  IF invalid # ""
        THEN /\ pc' = "done"
             /\ result' = Raised("generate", invalid)
             /\ wizard' = None
             /\ UNCHANGED <<cache, runs, files, calls, clock, peer, payload, idx,
                            processed, session, commits, cacheBefore, sameAsPrev>>
        ELSE /\ GenerateCall(WizardArgs(config, language))
             /\ wizard' = IF language = "de" /\ result'.status = "ok"
                          THEN Some(config) ELSE None

\* interactive.py run_interactive_wizard: the configuration is collected and
\* the "de" newsletter is generated.
WizardBegin(configs) ==
    /\ pc = "idle"
    /\ wizard = None
    /\ calls < MaxRuns
    /\ \E config \in configs : WizardRound(config, "de")

\* run_interactive_wizard goes on to the "en" newsletter.
WizardEnglish ==
    /\ pc = "done"
    /\ wizard # None
    /\ WizardRound(wizard[1], "en")

\* Sample configurations: _select_template offers the names that have both
\* files, and _collect_products accepts cached articles only.
TemplatePairs ==
    { [de |-> [name |-> "basic", status |-> "ok"], en |-> [name |-> "basic", status |-> "ok"]],
      [de |-> [name |-> "half", status |-> "ok"], en |-> [name |-> "half", status |-> "syntax_error"]],
      [de |-> [name |-> "broken", status |-> "syntax_error"], en |-> [name |-> "broken", status |-> "ok"]] }

WizardConfigs ==
    [ templates : TemplatePairs, products : { <<P1>>, <<P2, P1>> },
      validity_date : {None}, generate_pdf : BOOLEAN, output_dir : {"out"},
      fault : {"none", "pdf_import"} ]

NextCli ==
    \/ Tick
    \/ Return
    \/ CmdGenerate(Commands)
    \/ WizardBegin(WizardConfigs)
    \/ WizardEnglish

\* The generate command and the wizard over a cache that holds M1 and M2.
SpecCli == InitGen /\ [][NextCli]_vars

\* The element is not an object {article_number: non-empty string,
\* discount: integer 0..100, quantity: integer >= 1}.
MalformedElement(item) ==
    \/ item.kind # "object"
    \/ ~\E i \in 1..Len(item.items) : item.items[i][1] = "article_number"
    \/ \E i \in 1..Len(item.items) :
        LET key == item.items[i][1]
            v == item.items[i][2]
        IN  \/ key = "article_number" /\
                (v.kind # "str" \/ \A j \in 1..Len(v.text) : v.text[j] \in WhiteSpace)
            \/ key = "discount" /\ (v.kind # "int" \/ v.n < 0 \/ v.n > 100)
            \/ key = "quantity" /\ (v.kind # "int" \/ v.n < 1)

\* The file parses and is not an array, or one of its elements is malformed.
Malformed(text) ==
    /\ JsonLoads(text) # None
    /\ LET root == JsonLoads(text)[1]
       IN  \/ root.kind # "array"
           \/ \E i \in 1..Len(root.items) : MalformedElement(root.items[i])

\* The index, counted from 0, of the first malformed element of an array.
FirstMalformed(items) ==
    (CHOOSE i \in 1..Len(items) :
        /\ MalformedElement(items[i])
        /\ \A j \in 1..(i - 1) : ~MalformedElement(items[j])) - 1

RejectReasons ==
    {" must be an object", " missing article_number"}
        \cup {" has invalid discount: " \o ToString(d) : d \in (0 - 200)..200}
        \cup {" has invalid quantity: " \o ToString(q) : q \in (0 - 200)..200}

\* C12 (as claimed): a products file with a non-array root or a malformed
\* element rejects the whole batch: _load_products_file returns no products
\* and, for a malformed element, an error that names its index; the generate
\* command writes no file, adds no run record, and main returns 1.
C12_MalformedRejected ==
    [][\A c \in Commands :
        ( /\ pc = "idle"
          /\ pc' = "done"
          /\ Malformed(c.products_file)
          /\ CmdGenerateCall(c) ) =>
            LET loaded == LoadProductsFile(c.products_file)
                root == JsonLoads(c.products_file)[1]
            IN  /\ ~loaded.ok
                /\ loaded.products = <<>>
                /\ root.kind = "array" =>
                    \E reason \in RejectReasons :
                        loaded.error = AtIndex(FirstMalformed(root.items)) \o reason
                /\ files' = files
                /\ runs' = runs
                /\ ExitCode(result') = 1]_vars

\* One of the two template files of the configuration has a syntax error.
UsesInvalidTemplate(config) ==
    \E language \in {"de", "en"} : config.templates[language].status = "syntax_error"

\* C13 (as claimed): an invocation that uses a template with a syntax error
\* writes no HTML file and adds no run record, by the generate command and
\* by the wizard (the "de" and the "en" round).
C13_InvalidTemplateWritesNothing ==
    [][/\ \A c \in Commands :
            ( /\ pc = "idle"
              /\ pc' = "done"
              /\ c.template.status = "syntax_error"
              /\ CmdGenerateCall(c) ) => (files' = files /\ runs' = runs /\ calls' = calls)
       /\ \A config \in WizardConfigs :
            ( /\ pc = "idle"
              /\ pc' = "done"
              /\ wizard = None
              /\ UsesInvalidTemplate(config)
              /\ WizardRound(config, "de") ) => (files' = files /\ runs' = runs)
       /\ ( /\ wizard # None
            /\ wizard' = None
            /\ UsesInvalidTemplate(wizard[1]) ) => (files' = files /\ runs' = runs)]_vars

\* ------------------------------------------------------------ priced caches

\* The cache after a refresh, at time 0, of a feed with the one entry `props`.
CacheOf(props) ==
    Commit({}, Upsert({}, EmptySession, ArticleNumberOf(props), DerivedFields(props, 0)), 0).table

\* The four price properties in priority order, and a positive price text
\* for each.
TierKeys == <<"dealer_price", "retail_price_net", "retail_price_vat", "retail_price_gross">>
TierTexts ==
    << <<"1", "2", ",", "3", "4">>,
       <<"1", "0", "0", ",", "0", "0">>,
       <<"1", ".", "2", "3", "4", ",", "5", "0">>,
       <<"5", ",", "0", "0">> >>

\* A tier is absent from the entry, carries "0,0" (stored as 0.0) or carries
\* its positive text.
PriceKinds == {"absent", "zero", "positive"}

RECURSIVE TierProps(_, _)
TierProps(kinds, i) ==
    IF i > Len(TierKeys) THEN <<>>
    ELSE (CASE kinds[i] = "absent"   -> <<>>
            [] kinds[i] = "zero"     -> << <<D(TierKeys[i]), StrVal(<<"0", ",", "0">>)>> >>
            [] kinds[i] = "positive" -> << <<D(TierKeys[i]), StrVal(TierTexts[i])>> >>)
         \o TierProps(kinds, i + 1)

PricedProps(kinds) == << <<D("Artikelnummer"), StrVal(M1)>> >> \o TierProps(kinds, 1)

InitPrice ==
    \E kinds \in [1..Len(TierKeys) -> PriceKinds] : InitWith(CacheOf(PricedProps(kinds)))

PriceArgs ==
    [ template : {[name |-> "basic", status |-> "ok"]}, language : {"de", "en"},
      products : { <<ProductInput(M1, d, q)>> : d \in {0, 10, 34, 100}, q \in {1, 2, 3} },
      validity_date : {None}, generate_pdf : {FALSE}, output_dir : {"out"},
      fault : {"none"} ]

NextPrice ==
    \/ Tick
    \/ Return
    \/ GenerateNewsletter(PriceArgs)

\* Newsletters for article M1 over every combination of its price tiers.
SpecPrice == InitPrice /\ [][NextPrice]_vars

\* The first tier that holds a value, 0.0 included; 0 when none does.
FirstPresent(row) ==
    IF row.price_dealer # None THEN row.price_dealer[1]
    ELSE IF row.price_retail_net # None THEN row.price_retail_net[1]
    ELSE IF row.price_retail_vat # None THEN row.price_retail_vat[1]
    ELSE IF row.price_retail_gross # None THEN row.price_retail_gross[1]
    ELSE 0

\* The page written by the call with arguments a at the current time.
PageOf(a) == files'[HtmlPath(a.output_dir, a.language, clock)]

\* C14 (as claimed): the price of a line item is the first present tier of
\* its record in the order dealer, retail-net, retail-vat, retail-gross, a
\* stored 0.0 included, and 0.0 when all four are absent; selection never fails.
C14_FirstPresentTier ==
    [][\A a \in PriceArgs :
        ( /\ pc = "idle"
          /\ pc' = "done"
          /\ GenerateCall(a) ) =>
            /\ result'.status = "ok"
            /\ \A r \in cache : PageOf(a).products[1].Price = FirstPresent(r)]_vars

\* C15: for a resolved line item with discount d and quantity q the
\* discounted unit price is price * (1 - d/100) when d > 0 and the price
\* itself when d = 0, the line total is the discounted unit price times q,
\* and 0 <= discounted <= price; price 100, discount 10, quantity 2 give
\* unit 90 and total 180.
C15_DiscountAndTotal ==
    [][\A a \in PriceArgs :
        ( /\ pc = "idle"
          /\ pc' = "done"
          /\ GenerateCall(a) ) =>
            LET p == PageOf(a).products[1]
                d == a.products[1].discount
                q == a.products[1].quantity
            IN  /\ d > 0 => p.DiscountedPrice * 100 = p.Price * (100 - d)
                /\ d = 0 => p.DiscountedPrice = p.Price
                /\ p.TotalPrice = p.DiscountedPrice * q
                /\ 0 <= p.DiscountedPrice
                /\ p.DiscountedPrice <= p.Price
                /\ (p.Price = 100 * Unit /\ d = 10 /\ q = 2) =>
                    (p.DiscountedPrice = 90 * Unit /\ p.TotalPrice = 180 * Unit)]_vars

\* A page lists an item of price 100 at discount 10 and quantity 2.
C15_Witness ==
    /\ pc = "done"
    /\ result.status = "ok"
    /\ \E path \in DOMAIN files :
        LET p == files[path].products[1]
        IN  /\ p.Price = 100 * Unit
            /\ p.Discount = 10
            /\ p.Quantity = 2
            /\ p.DiscountedPrice = 90 * Unit
            /\ p.TotalPrice = 180 * Unit

\* The text is the amount of `cents` hundredths written with "." before every
\* group of three integer digits and "," before exactly two decimal digits.
GermanAmount(text, cents) ==
    /\ Len(text) >= 4
    /\ LET n == Len(text) - 3
           ip == SubSeq(text, 1, n)
           fp == SubSeq(text, n + 2, n + 3)
       IN  /\ text[n + 1] = ","
           /\ AllDigits(fp)
           /\ DigitsVal(fp) = cents % 100
           /\ \A i \in 1..n : (ip[i] = ".") <=> ((n - i + 1) % 4 = 0)
           /\ \A i \in 1..n : ip[i] # "." => ip[i] \in Digit
           /\ ip[1] = "0" => n = 1
           /\ DigitsVal(Replace(ip, ".", <<>>)) = cents \div 100

\* The text shows `value` rounded to two decimals, and reads back as `value`
\* through price extraction when value is a non-zero amount of two decimals.
ShowsAmount(text, value) ==
    /\ \E cents \in ((value \div 100)..(value \div 100 + 1)) :
        /\ cents * 100 - value \in (-50)..50
        /\ GermanAmount(text, cents)
    /\ (value # 0 /\ value % 100 = 0) => ExtractPrice(StrVal(text)) = Some(value)

TwelveThirtyFourFifty == <<"1", ".", "2", "3", "4", ",", "5", "0">>

\* C17: every amount on a page is shown rounded to two decimals with "."
\* between groups of three integer digits and "," before exactly two decimal
\* digits (1234.5 as "1.234,50"), the same for both languages, and the shown
\* text of a non-zero two-decimal amount is extracted back to that amount.
C17_GermanCurrency ==
    [][\A a \in PriceArgs :
        ( /\ pc = "idle"
          /\ pc' = "done"
          /\ GenerateCall(a) ) =>
            LET page == PageOf(a)
                p == page.products[1]
                row == QueryFirst(cache, EmptySession, a.products[1].article_number)[1]
            IN  /\ ShowsAmount(p.FormattedPrice, p.DiscountedPrice)
                /\ ShowsAmount(p.FormattedTotalPrice, p.TotalPrice)
                /\ ShowsAmount(page.formatted_total_amount, page.total_amount)
                /\ ShowsAmount(page.formatted_total_discount, page.total_discount_amount)
                /\ p.Discount > 0 =>
                    /\ p.OriginalPrice # None
                    /\ ShowsAmount(p.OriginalPrice[1], p.Price)
                /\ p.DiscountedPrice = 12345 * 1000 => p.FormattedPrice = TwelveThirtyFourFifty
                /\ SelectedProduct(row, a.products[1], "de").FormattedPrice
                     = SelectedProduct(row, a.products[1], "en").FormattedPrice]_vars

\* A page shows the original price 1234.5 of a discounted item as "1.234,50".
C17_Witness ==
    /\ pc = "done"
    /\ result.status = "ok"
    /\ \E path \in DOMAIN files :
        LET p == files[path].products[1]
        IN  /\ p.Price = 12345 * 1000
            /\ p.OriginalPrice # None
            /\ p.OriginalPrice[1] = TwelveThirtyFourFifty
            /\ p.Discount = 10

\* The step is a generate_newsletter call that returns normally.
GenerateSucceeds ==
    /\ pc = "idle"
    /\ pc' = "done"
    /\ result'.op = "generate"
    /\ result'.status = "ok"

\* C18: a successful generate_newsletter call adds exactly one run record,
\* and every step of refresh_cache and generate_newsletter, successful or
\* failed, leaves each existing run record in place with all its fields.
C18_RunsImmutable ==
    [][ /\ Len(runs') >= Len(runs)
        /\ \A i \in 1..Len(runs) : runs'[i] = runs[i]
        /\ GenerateSucceeds => Len(runs') = Len(runs) + 1
        /\ ~GenerateSucceeds => runs' = runs ]_vars

\* A refresh has ended after a generate call added a second run record to
\* the earlier one, which is unchanged.
C18_Witness ==
    /\ pc = "done"
    /\ result.op = "refresh"
    /\ cache # SeedCache
    /\ Len(runs) = 2
    /\ runs[1] = EarlierRun
    /\ runs[2].id = 2

\* The article numbers the entry list carries.
ArticlesOf(blocks) ==
    {ArticleNumberOf(ListAt(blocks, i).props) :
        i \in {j \in 1..ListLen(blocks) : HasArticle(ListAt(blocks, j))}}

\* No two entries of the list carry the same article number.
OnceEach(blocks) ==
    \A n \in ArticlesOf(blocks) : Cardinality(PositionsOf(blocks, n)) = 1

\* Both invocations have fetched a feed and have ended.
BothDone ==
    /\ pc = "done"
    /\ peer.pc = "done"
    /\ payload # None
    /\ peer.payload # None

RecordsOf(n) == {r \in cache : r.article_number = n}

\* The invocation that ended with `res` over the entries `blocks` returned
\* its count and every article of its feed is stored once, or it ended with
\* an integrity error.
ReturnedOrRejected(res, blocks) ==
    \/ /\ res = Returned("refresh", KeyedCount(blocks))
       /\ \A n \in ArticlesOf(blocks) : Cardinality(RecordsOf(n)) = 1
    \/ res = Raised("refresh", "IntegrityError")

\* C19 (as claimed): when two refresh_cache invocations over feeds that share
\* an article number have run on a store that did not hold it, however their
\* steps interleaved, the store holds exactly one record of that article
\* number and both invocations have returned their counts.
C19_BothComplete ==
    (BothDone /\ OnceEach(EntryList) /\ OnceEach(PeerList)) =>
        \A n \in ArticlesOf(EntryList) \cap ArticlesOf(PeerList) :
            /\ Cardinality(RecordsOf(n)) = 1
            /\ result = Returned("refresh", KeyedCount(EntryList))
            /\ peer.result = Returned("refresh", KeyedCount(PeerList))

\* C19 (amended): however the steps of two refresh_cache invocations
\* interleave, the store never holds two records of one article number; an
\* invocation that has ended has returned its count, with every article of
\* its feed stored once, or has ended with an integrity error at a commit;
\* and when neither feed repeats an article number at least one of the two
\* has returned.
C19_OneRecordOrRejected ==
    /\ \A r1 \in cache : \A r2 \in cache :
        r1.article_number = r2.article_number => r1 = r2
    /\ BothDone =>
        /\ ReturnedOrRejected(result, EntryList)
        /\ ReturnedOrRejected(peer.result, PeerList)
        /\ (OnceEach(EntryList) /\ OnceEach(PeerList)) =>
            (result.status = "ok" \/ peer.result.status = "ok")

\* Both invocations looked M1 up before either committed: the first has
\* returned, the second was rejected at its commit, and M1 is stored once.
C19_Witness ==
    /\ BothDone
    /\ OnceEach(EntryList)
    /\ OnceEach(PeerList)
    /\ M1 \in ArticlesOf(EntryList) \cap ArticlesOf(PeerList)
    /\ result.status = "ok"
    /\ peer.result = Raised("refresh", "IntegrityError")
    /\ Cardinality(RecordsOf(M1)) = 1

\* Every entry of the feed being processed is a mapping.
AllMappings == \A i \in 1..ListLen(EntryList) : ListAt(EntryList, i).shape # "notmapping"

\* The article numbers that two entries of the feed carry and that were not
\* cached when the call began.
TwiceAndNew ==
    {n \in FeedArticles :
        /\ n \notin CachedNumbers(cacheBefore)
        /\ Cardinality(PositionsOf(EntryList, n)) = 2}

\* C20 (as claimed): a refresh of a feed of mappings in which an article
\* number that is not cached appears in two entries returns normally, and the
\* cache then holds one record of that article number with the values of the
\* later entry: the second entry was applied to the record added for the
\* first.
C20_DuplicateNewArticle ==
    (RefreshDone /\ payload # None /\ AllMappings) =>
        \A n \in TwiceAndNew :
            /\ result.status = "ok"
            /\ Cardinality({r \in cache : r.article_number = n}) = 1
            /\ \A r \in cache :
                r.article_number = n =>
                    LET derived == DerivedFields(
                            ListAt(EntryList, LastPosition(PositionsOf(EntryList, n))).props, 0)
                    IN  \A f \in (DOMAIN derived) \ {"last_updated"} : r[f] = derived[f]

\* The file stored under `path` is the same before and after the step.
FileKept(path) == path \in DOMAIN files' /\ files'[path] = files[path]

\* The files of the run record r are the same before and after the step.
RunFilesKept(r) ==
    /\ FileKept(r.html_path)
    /\ r.pdf_path # None => FileKept(r.pdf_path[1])

\* C21 (as claimed): after a successful generate_newsletter call any two run
\* records have different html_path values, also when two calls for one
\* language fall into the same clock second, and the call has overwritten no
\* file of an earlier run.
C21_DistinctOutputs ==
    [][GenerateSucceeds =>
        /\ \A i \in 1..Len(runs') : \A j \in 1..Len(runs') :
            i # j => runs'[i].html_path # runs'[j].html_path
        /\ \A i \in 1..Len(runs) : RunFilesKept(runs[i])]_vars

\* C21 (amended): the run record a successful generate_newsletter call adds
\* has an html_path and a pdf_path different from those of every earlier run
\* of another language, another output directory or another clock second,
\* and the call leaves the files of those runs as they were.
C21_DistinctUnlessSameSecond ==
    [][GenerateSucceeds =>
        LET n == runs'[Len(runs')]
        IN  \A i \in 1..Len(runs) :
                LET r == runs[i]
                IN  ( \/ r.language # n.language
                      \/ r.output_dir # n.output_dir
                      \/ r.created_at # n.created_at ) =>
                        /\ n.html_path # r.html_path
                        /\ n.pdf_path # None => n.pdf_path # r.pdf_path
                        /\ RunFilesKept(r)]_vars

\* An "en" newsletter with a PDF was generated in the second of the earlier
\* "de" newsletter, whose page is still on disk.
C21_Witness ==
    /\ pc = "done"
    /\ result.status = "ok"
    /\ Len(runs) = 2
    /\ runs[1] = EarlierRun
    /\ runs[2].language = "en"
    /\ runs[2].created_at = EarlierRun.created_at
    /\ runs[2].pdf_path # None
    /\ files[EarlierRun.html_path] = EarlierPage
    /\ runs[2].html_path \in DOMAIN files

\* The path names an HTML file.
IsHtml(path) == path[3] = "html"

FailsAfterHtml(table, a) ==
    /\ CachedItems(table, a.products) # <<>>
    /\ a.template.status = "ok"
    /\ a.fault # "html_write"
    /\ \/ a.generate_pdf /\ a.fault \in {"pdf_import", "pdf_write"}
       \/ a.fault = "commit"

LowerLetters ==
    <<"a", "b", "c", "d", "e", "f", "g", "h", "i", "j", "k", "l", "m",
      "n", "o", "p", "q", "r", "s", "t", "u", "v", "w", "x", "y", "z">>
UpperLetters ==
    <<"A", "B", "C", "D", "E", "F", "G", "H", "I", "J", "K", "L", "M",
      "N", "O", "P", "Q", "R", "S", "T", "U", "V", "W", "X", "Y", "Z">>

\* str.upper() and SQL upper(), on letters a-z.
UpperChar(c) ==
    IF \E i \in 1..Len(LowerLetters) : LowerLetters[i] = c
    THEN UpperLetters[CHOOSE i \in 1..Len(LowerLetters) : LowerLetters[i] = c]
    ELSE c

UpperText(t) == [i \in 1..Len(t) |-> UpperChar(t[i])]

\* interactive.py _lookup_product: the first row whose article number in
\* upper case is the stripped input in upper case.
LookupProduct(table, article_number) ==
    LET normalized == UpperText(Strip(article_number, WhiteSpace))
        hits == {r \in table : UpperText(r.article_number) = normalized}
    IN  IF hits = {} THEN None
        ELSE Some(CHOOSE h \in hits : \A o \in hits : h.id <= o.id)

\* interactive.py _collect_products: `answers` are the operator's answers to
\* the three prompts, round by round; after the last round the operator
\* enters a blank article number. The line items accepted so far are
\* `products`.
RECURSIVE CollectFrom(_, _, _)
CollectFrom(table, answers, products) ==
    IF answers = <<>> THEN products
    ELSE LET answer == Head(answers)
             article_number == UpperText(Strip(answer.article_number, WhiteSpace))
         IN  IF article_number = <<>>
             THEN (IF products # <<>> THEN products
                   ELSE CollectFrom(table, Tail(answers), products))
             ELSE IF LookupProduct(table, article_number) = None
             THEN CollectFrom(table, Tail(answers), products)
             ELSE IF answer.discount < 0 \/ answer.discount > 100
             THEN CollectFrom(table, Tail(answers), products)
             ELSE IF answer.quantity < 1
             THEN CollectFrom(table, Tail(answers), products)
             ELSE CollectFrom(table, Tail(answers),
                              Append(products, ProductInput(article_number, answer.discount,
                                                            answer.quantity)))

CollectProducts(table, answers) == CollectFrom(table, answers, <<>>)

\* Sample answers: article numbers typed in either case, padded, blank or
\* of no record.
TypedNumbers ==
    { <<"m", "1">>, <<"M", "1">>, <<" ", "m", "2", " ">>, <<"M", "2">>, <<"M", "3">>, <<>> }

Answers == [ article_number : TypedNumbers, discount : {0, 101}, quantity : {0, 1} ]

AnswerLists == {<<a>> : a \in Answers} \cup {<<a, b>> : a \in Answers, b \in Answers}

\* interactive.py _collect_wizard_config: the configurations the wizard can
\* build over the cache `table`, with a template that has both files.
CollectedConfigs(table) ==
    { [ templates     |-> [de |-> [name |-> "basic", status |-> "ok"],
                           en |-> [name |-> "basic", status |-> "ok"]],
        products      |-> CollectProducts(table, answers),
        validity_date |-> None,
        generate_pdf  |-> FALSE,
        output_dir    |-> "out",
        fault         |-> "none" ] :
        answers \in {l \in AnswerLists : CollectProducts(table, l) # <<>>} }

\* Feed entries whose article numbers are written in lower or upper case.
CaseProps(article_number) ==
    << <<D("Artikelnummer"), StrVal(article_number)>>,
       <<D("Bezeichnung-Deutsch"), StrVal(article_number)>>,
       <<D("dealer_price"), StrVal(<<"5", ",", "0", "0">>)>> >>

\* The cache after a refresh, at time 0, of a feed with the entries of
\* `numbers`, which are distinct.
RECURSIVE SessionOf(_)
SessionOf(numbers) ==
    IF numbers = <<>> THEN EmptySession
    ELSE Upsert({}, SessionOf(SubSeq(numbers, 1, Len(numbers) - 1)),
                ArticleNumberOf(CaseProps(numbers[Len(numbers)])),
                DerivedFields(CaseProps(numbers[Len(numbers)]), 0))

CaseCache(numbers) == Commit({}, SessionOf(numbers), 0).table

CaseCaches ==
    { CaseCache(<< <<"M", "1">>, <<"M", "2">> >>),
      CaseCache(<< <<"m", "1">>, <<"M", "2">> >>),
      CaseCache(<< <<"m", "1">>, <<"M", "1">> >>),
      CaseCache(<< <<"m", "2">> >>) }

InitWizard == \E table \in CaseCaches : InitWith(table)

NextWizard ==
    \/ Tick
    \/ Return
    \/ WizardBegin(CollectedConfigs(cache))
    \/ WizardEnglish

\* The wizard over caches with article numbers in lower and upper case.
SpecWizard == InitWizard /\ [][NextWizard]_vars

\* C23 (as claimed): every line item the wizard accepted is resolved by the
\* generation that follows, whatever the case of the stored article numbers:
\* the call does not fail for want of products, and the run record counts as
\* many resolved products as the wizard accepted.
C23_AcceptedItemsResolve ==
    [][\A config \in CollectedConfigs(cache) :
        ( /\ pc = "idle"
          /\ wizard = None
          /\ pc' = "done"
          /\ WizardRound(config, "de") ) =>
            /\ result'.status = "ok"
            /\ runs'[Len(runs')].products_count = Len(config.products)]_vars

\* ----------------------------------------------------------- detail images

UrlX == <<"h", "t", "t", "p", "/", "x">>
UrlM1 == <<"h", "t", "t", "p", "/", "M", "1">>
UrlM1b == <<"h", "t", "t", "p", "/", "a", "M", "1", "b">>
UrlM2 == <<"h", "t", "t", "p", "/", "M", "2">>
Urls == {UrlX, UrlM1, UrlM1b, UrlM2}

UrlLists ==
    {<<>>} \cup {<<u>> : u \in Urls} \cup {<<u, v>> : u \in Urls, v \in Urls}
        \cup {<<u, v, w>> : u \in Urls, v \in Urls, w \in Urls}

\* The d:Detailbilder text of a list of URLs: the URLs separated by blanks.
RECURSIVE JoinUrls(_)
JoinUrls(urls) ==
    IF urls = <<>> THEN <<>>
    ELSE IF Len(urls) = 1 THEN Head(urls)
    ELSE Head(urls) \o <<" ">> \o JoinUrls(Tail(urls))

ImageProps(article_number, urls) ==
    << <<D("Artikelnummer"), StrVal(article_number)>>,
       <<D("Detailbilder"), StrVal(JoinUrls(urls))>> >>

InitImage ==
    \E article_number \in {M1, M2}, urls \in UrlLists :
        InitWith(CacheOf(ImageProps(article_number, urls)))

ImageArgs ==
    [ template : {[name |-> "basic", status |-> "ok"]}, language : {"de"},
      products : { <<P1>>, <<P2>> },
      validity_date : {None}, generate_pdf : {FALSE}, output_dir : {"out"},
      fault : {"none"} ]

NextImage ==
    \/ Tick
    \/ Return
    \/ GenerateNewsletter(ImageArgs)

\* Newsletters for one article over every list of detail image URLs.
SpecImage == InitImage /\ [][NextImage]_vars

\* The text `sub` occurs in the text t.
IsSubstring(sub, t) ==
    \E k \in 0..(Len(t) - Len(sub)) : SubSeq(t, k + 1, k + Len(sub)) = sub

\* C16: the image of a line item is the first URL of its record's list, in
\* list order, that contains the article number; the first URL of the list
\* when none contains it; absent when the list is empty.
C16_FirstMatchingImage ==
    [][\A a \in ImageArgs :
        ( /\ pc = "idle"
          /\ pc' = "done"
          /\ GenerateCall(a)
          /\ result'.status = "ok" ) =>
            \A r \in cache :
                LET urls == JsonLoads(r.detail_images_urls)[1]
                    image == PageOf(a).products[1].ImageUrl
                    matches == {i \in 1..Len(urls) : IsSubstring(r.article_number, urls[i])}
                IN  /\ urls = <<>> => image = None
                    /\ (urls # <<>> /\ matches = {}) => image = Some(urls[1])
                    /\ matches # {} =>
                        \E i \in matches : /\ image = Some(urls[i])
                                           /\ \A j \in matches : i <= j]_vars

\* A page shows an image that is not the first URL of the record's list.
C16_Witness ==
    /\ pc = "done"
    /\ result.status = "ok"
    /\ \E path \in DOMAIN files : \E r \in cache :
        LET urls == JsonLoads(r.detail_images_urls)[1]
            image == files[path].products[1].ImageUrl
        IN  /\ Len(urls) > 1
            /\ image # None
            /\ image[1] # urls[1]
            /\ IsSubstring(r.article_number, image[1])

====
